---- MODULE Spec2Model ----
(***************************************************************************)
(* pbkdf2-hmac: PBKDF2 (RFC 2898) with HMAC as the PRF.                    *)
(* Model of src/src/ts/index.ts: the public function pbkdf2Hmac (promise   *)
(* executor, browser path with native deriveBits and manual fallback, node *)
(* path with crypto.pbkdf2) and the manual engine _pbkdf2 with F, INT,     *)
(* concat and xorMe.  One action per synchronous run of a handler between  *)
(* two awaits/callbacks (JavaScript runs each to completion).              *)
(***************************************************************************)
EXTENDS Integers, Sequences, FiniteSets, TLC

(***************************************************************************)
(* Bounds of the model.                                                    *)
(***************************************************************************)
MaxC == 3          \* iteration counts -1 .. MaxC (and one non-integer)
MaxArrs == 3       \* concat is called with up to MaxArrs arrays
MaxBlocks == 2     \* longest derivation that is run to the end has MaxBlocks blocks

(***************************************************************************)
(* JavaScript numbers.  c and dkLen are doubles; the values the checks of  *)
(* the code distinguish are integers up to about 2^38 and non-integers.    *)
(* A number is hi * 2^20 + lo + frac/2 with 0 <= lo < 2^20, frac in {0,1}. *)
(***************************************************************************)
Base == 2 ^ 20

Num(n) == IF n >= 0 THEN [hi |-> n \div Base, lo |-> n % Base, frac |-> 0]
                    ELSE [hi |-> -1, lo |-> Base + n, frac |-> 0]

Half(n) == [Num(n) EXCEPT !.frac = 1]

NumberIsInteger(x) == x.frac = 0

LessThan(x, y) ==
    \/ x.hi < y.hi
    \/ x.hi = y.hi /\ x.lo < y.lo
    \/ x.hi = y.hi /\ x.lo = y.lo /\ x.frac < y.frac

LessOrEqual(x, y) == LessThan(x, y) \/ x = y

\* x * k for an integer x and a small integer k >= 0
Times(x, k) ==
    [hi |-> (x.hi * k) + ((x.lo * k) \div Base), lo |-> (x.lo * k) % Base, frac |-> 0]

\* x + k for an integer x and a small integer k (possibly negative)
Plus(x, k) ==
    [hi |-> x.hi + ((x.lo + k) \div Base), lo |-> (x.lo + k) % Base, frac |-> x.frac]

\* 2 ** 32 - 1
TwoPow32Minus1 == [hi |-> 4095, lo |-> Base - 1, frac |-> 0]

\* Math.ceil(x / k) for an integer x > 0 and an integer k > 0.  The double
\* quotient is exact enough for the ceiling to be the mathematical one:
\* x < 2^39, k <= 64, so a non-integer quotient is at least 1/64 away from
\* the next integer while the rounding error is below 2^-13.
MathCeilDiv(x, k) ==
    LET qhi == x.hi \div k
        rem == (x.hi % k) * Base + x.lo
        qlo == rem \div k
        up  == IF rem % k = 0 THEN 0 ELSE 1
    IN  Plus([hi |-> qhi, lo |-> qlo, frac |-> 0], up)

\* the Int value of a number known to be a small non-negative integer
Small(x) == x.lo

IsSmall(x) == x.hi = 0 /\ x.frac = 0

(***************************************************************************)
(* Bytes, buffers and views.                                               *)
(***************************************************************************)
Zeros(n) == [k \in 1..n |-> 0]

\* a JavaScript value handed in as P or S
Str(cs) == [type |-> "string", chars |-> cs, buffer |-> <<>>, byteOffset |-> 0, byteLength |-> 0]
ArrayBufferOf(bs) == [type |-> "ArrayBuffer", chars |-> <<>>, buffer |-> bs, byteOffset |-> 0, byteLength |-> Len(bs)]
ViewOf(bs, off, len) == [type |-> "view", chars |-> <<>>, buffer |-> bs, byteOffset |-> off, byteLength |-> len]
NumberValue == [type |-> "number", chars |-> <<>>, buffer |-> <<>>, byteOffset |-> 0, byteLength |-> 0]

\* new Uint8Array(buffer) and new Uint8Array(buffer, byteOffset, byteLength)
Uint8ArrayOf(bs) == ViewOf(bs, 0, Len(bs))

\* ArrayBuffer.isView(x)
IsView(x) == x.type = "view"

\* the platform's BufferSource: ArrayBuffer or a view
IsBufferSource(x) == x.type \in {"ArrayBuffer", "view"}

\* the bytes a BufferSource denotes
BytesOf(x) == SubSeq(x.buffer, x.byteOffset + 1, x.byteOffset + x.byteLength)

\* new TextEncoder().encode(s): UTF-8 of a string of code points below 0x800
RECURSIVE UTF8(_)
UTF8(cs) ==
    IF cs = <<>> THEN <<>>
    ELSE LET cp == Head(cs)
         IN  (IF cp < 128 THEN <<cp>>
              ELSE <<192 + (cp \div 64), 128 + (cp % 64)>>) \o UTF8(Tail(cs))

TextEncoderEncode(s) == Uint8ArrayOf(UTF8(s.chars))

\* a ^ b on bytes
RECURSIVE BitXor(_, _)
BitXor(a, b) ==
    IF a = 0 THEN b
    ELSE IF b = 0 THEN a
    ELSE (((a % 2) + (b % 2)) % 2) + (2 * BitXor(a \div 2, b \div 2))

(***************************************************************************)
(* The hash table and the external hash primitives.                        *)
(***************************************************************************)
\* own keys of HASHALGS
HashAlg == {"SHA-1", "SHA-256", "SHA-384", "SHA-512"}

\* variant of the table: SHA-384 with the block size of SHA-256
HASHALGS_block64 ==
    [h \in HashAlg |->
        CASE h = "SHA-1"   -> [outputLength |-> 20, blockSize |-> 64]
          [] h = "SHA-256" -> [outputLength |-> 32, blockSize |-> 64]
          [] h = "SHA-384" -> [outputLength |-> 48, blockSize |-> 64]
          [] h = "SHA-512" -> [outputLength |-> 64, blockSize |-> 128]]

HASHALGS ==
    [h \in HashAlg |->
        CASE h = "SHA-1"   -> [outputLength |-> 20, blockSize |-> 64]
          [] h = "SHA-256" -> [outputLength |-> 32, blockSize |-> 64]
          [] h = "SHA-384" -> [outputLength |-> 48, blockSize |-> 128]
          [] h = "SHA-512" -> [outputLength |-> 64, blockSize |-> 128]]

\* HASHALGS is an object literal: its prototype is Object.prototype, whose
\* properties the `in` operator also finds
ObjectPrototypeKeys == {"toString", "constructor", "valueOf", "hasOwnProperty"}

\* hash in HASHALGS
HashInHASHALGS(hash) == hash \in HashAlg \cup ObjectPrototypeKeys

\* the digests of the platform (node also knows md5, which HASHALGS does not
\* list); (outputLength, blockSize, a tag that separates the functions)
PlatformDigest ==
    [d \in {"sha1", "sha256", "sha384", "sha512", "md5"} |->
        CASE d = "sha1"   -> [outputLength |-> 20, blockSize |-> 64,  tag |-> 1]
          [] d = "sha256" -> [outputLength |-> 32, blockSize |-> 64,  tag |-> 2]
          [] d = "sha384" -> [outputLength |-> 48, blockSize |-> 128, tag |-> 3]
          [] d = "sha512" -> [outputLength |-> 64, blockSize |-> 128, tag |-> 4]
          [] d = "md5"    -> [outputLength |-> 16, blockSize |-> 64,  tag |-> 5]]

\* hash.toLowerCase().replace('-', '')
NodeAlg(hash) ==
    CASE hash = "SHA-1"   -> "sha1"
      [] hash = "SHA-256" -> "sha256"
      [] hash = "SHA-384" -> "sha384"
      [] hash = "SHA-512" -> "sha512"
      [] hash = "MD5"     -> "md5"
      [] hash = "toString" -> "tostring"
      [] OTHER -> "other"

\* HMAC as an abstract deterministic function of (digest, key, message) over
\* bytes.  As in RFC 2104 a key shorter than the block is padded with zeros
\* to the block size, so the empty key and a key of blockSize zeros agree.
RECURSIVE Absorb(_, _, _, _)
\* a position-weighted checksum of bytes[lo..hi], by halving
Absorb(bytes, lo, hi, w) ==
    IF lo > hi THEN 0
    ELSE IF lo = hi THEN ((bytes[lo] + 1) * (lo * lo + w * lo + 1)) % 65521
    ELSE LET mid == (lo + hi) \div 2
         IN  (Absorb(bytes, lo, mid, w) + Absorb(bytes, mid + 1, hi, w)) % 65521

PadKey(key, blockSize) ==
    IF Len(key) >= blockSize THEN key ELSE key \o Zeros(blockSize - Len(key))

HMACBytes(digest, key, msg) ==
    LET d    == PlatformDigest[digest]
        pk   == PadKey(key, d.blockSize)
        seed == (d.tag * 7919 + 31 * Absorb(pk, 1, Len(pk), 3)
                 + 17 * Absorb(msg, 1, Len(msg), 5) + Len(msg)) % 65521
    IN  [k \in 1..d.outputLength |-> ((seed + 1) * (2 * k + 1) + (seed \div 256) + k) % 256]

(***************************************************************************)
(* Helpers of the manual engine.                                           *)
(***************************************************************************)
\* variant of INT: least significant octet first
INT_littleEndian(i) == << i % 256, (i \div 256) % 256, (i \div 65536) % 256, (i \div 16777216) % 256 >>

\* view.setUint32(0, x, false) for an integer x >= 0: x modulo 2^32, four
\* octets, most significant first
SetUint32(x) ==
    << (x.hi % 4096) \div 16, ((x.hi % 16) * 16) + (x.lo \div 65536),
       (x.lo \div 256) % 256, x.lo % 256 >>

\* INT(i): the four octets of i
INT(i) == SetUint32(Num(i))

\* variant of xorMe: arr1[i] = arr2[i]
xorMe_assign(arr1, arr2) == [k \in 1..Len(arr1) |-> arr2[k]]

\* xorMe(arr1, arr2): the new content of arr1
xorMe(arr1, arr2) == [k \in 1..Len(arr1) |-> BitXor(arr1[k], arr2[k])]

\* concat(...arrs) on byte arrays: [throws, bytes]
RECURSIVE Flatten(_)
Flatten(arrs) == IF arrs = <<>> THEN <<>> ELSE Head(arrs) \o Flatten(Tail(arrs))

\* variant of concat: each array is copied in front of the previous ones
RECURSIVE FlattenBackwards(_)
FlattenBackwards(arrs) ==
    IF arrs = <<>> THEN <<>> ELSE FlattenBackwards(Tail(arrs)) \o Head(arrs)

concat_backwards(arrs) ==
    IF Len(arrs) = 0 THEN [throws |-> TRUE, bytes |-> <<>>]
    ELSE [throws |-> FALSE, bytes |-> FlattenBackwards(arrs)]

concat(arrs) ==
    IF Len(arrs) = 0 THEN [throws |-> TRUE, bytes |-> <<>>]
    ELSE [throws |-> FALSE, bytes |-> Flatten(arrs)]

\* variant of the slice: the last block is kept whole
Slice0_whole(arr, r) == arr

\* T[l - 1].slice(0, r)
Slice0(arr, r) == SubSeq(arr, 1, IF r < Len(arr) THEN r ELSE Len(arr))

\* variant of the loop test: j <= c
FLoopContinues_inclusive(j, c) == j <= c

\* for (...; j < c; ...): the loop of F goes on
FLoopContinues(j, c) == j < c

(***************************************************************************)
(* PBKDF2 of RFC 2898, section 5.2: the function the platform primitives   *)
(* (crypto.subtle.deriveBits, crypto.pbkdf2) compute, and the reference    *)
(* the manual engine is compared with.                                     *)
(***************************************************************************)
\* BE32(i): the four-octet big-endian encoding of i
BE32(i) == [k \in 1..4 |-> (i \div (256 ^ (4 - k))) % 256]

RECURSIVE RefU(_, _, _, _, _)
\* U_1 = PRF(P, S || INT(i)), U_j = PRF(P, U_{j-1})
RefU(digest, key, salt, i, j) ==
    IF j = 1 THEN HMACBytes(digest, key, salt \o BE32(i))
    ELSE HMACBytes(digest, key, RefU(digest, key, salt, i, j - 1))

RECURSIVE RefF(_, _, _, _, _)
\* F(P, S, c, i) = U_1 xor U_2 xor ... xor U_c
RefF(digest, key, salt, c, i) ==
    IF c = 1 THEN RefU(digest, key, salt, i, 1)
    ELSE LET acc == RefF(digest, key, salt, c - 1, i)
             u   == RefU(digest, key, salt, i, c)
         IN  [k \in 1..Len(acc) |-> BitXor(acc[k], u[k])]

RECURSIVE RefBlocks(_, _, _, _, _, _)
RefBlocks(digest, key, salt, c, i, l) ==
    IF i > l THEN <<>>
    ELSE RefF(digest, key, salt, c, i) \o RefBlocks(digest, key, salt, c, i + 1, l)

RefPBKDF2(digest, key, salt, c, dkLen) ==
    LET hLen == PlatformDigest[digest].outputLength
        l    == (dkLen + hLen - 1) \div hLen
    IN  SubSeq(RefBlocks(digest, key, salt, c, 1, l), 1, dkLen)

\* x - y for integers x >= y
Minus(x, y) ==
    [hi |-> (x.hi - y.hi) + ((x.lo - y.lo) \div Base), lo |-> (x.lo - y.lo) % Base, frac |-> 0]

(***************************************************************************)
(* The promise returned by pbkdf2Hmac (and the one of the async _pbkdf2).  *)
(***************************************************************************)
Pending == [state |-> "pending", key |-> <<>>, error |-> "none"]

\* variant of reject: the last reason replaces an earlier one
reject_last(p, err) ==
    IF p.state # "fulfilled" THEN [state |-> "rejected", key |-> <<>>, error |-> err] ELSE p

\* reject(err) of new Promise((resolve, reject) => ...)
reject(p, err) ==
    IF p.state = "pending" THEN [state |-> "rejected", key |-> <<>>, error |-> err] ELSE p

\* variant of resolve: a promise that could be settled again
resolve_again(p, key) == [state |-> "fulfilled", key |-> key, error |-> "none"]

\* resolve(key)
resolve(p, key) ==
    IF p.state = "pending" THEN [state |-> "fulfilled", key |-> key, error |-> "none"] ELSE p

\* the errors of the code that are RangeErrors
RangeErrors == {"InvalidAlgorithm", "InvalidP", "InvalidS", "InvalidIterationCount",
                "InvalidLength", "InvalidArrayLength", "OffsetOutOfBounds"}

(***************************************************************************)
(* The inputs of the model.                                                *)
(***************************************************************************)
\* "undefined" is the hash argument left out
Hashes == HashAlg \cup {"MD5", "toString", "undefined"}

\* variant of the default parameter: hash = 'SHA-1'
HashParam_sha1(h) == IF h = "undefined" THEN "SHA-1" ELSE h

\* the default parameter hash = 'SHA-256' of pbkdf2Hmac
HashParam(h) == IF h = "undefined" THEN "SHA-256" ELSE h

PInputs == { Str(<<>>), Str(<<112, 233>>), ArrayBufferOf(<<112, 195, 169>>),
             ViewOf(<<0, 112, 195, 169, 0>>, 1, 3), NumberValue }

SInputs == { Str(<<115>>), ArrayBufferOf(<<>>), ViewOf(<<9, 115, 9>>, 1, 1), NumberValue }

CInputs == { Num(n) : n \in -1..MaxC } \cup { Half(1) }

\* (2 ** 32 - 1) * hLen
DkLimit(hLen) == Times(TwoPow32Minus1, hLen)

DkLenInputs(hash) ==
    LET hLen == IF hash \in HashAlg THEN HASHALGS[hash].outputLength ELSE 32
    IN  { Num(-1), Num(0), Half(1), Num(1), Num(hLen), Num(hLen + 1),
          Num((MaxBlocks - 1) * hLen + 1),
          Plus(DkLimit(hLen), -1), DkLimit(hLen), Plus(DkLimit(hLen), 1) }

(***************************************************************************)
(* The manual engine _pbkdf2.  Its locals are the fields of one record;    *)
(* pc is the await it is suspended at, calls the platform operations it    *)
(* has started, promise the promise the async function returned.           *)
(* Uacc and UjMinus1 are references into heap (the Uint8Arrays F holds).   *)
(***************************************************************************)
NoArgs == [P |-> NumberValue, S |-> NumberValue, c |-> Num(0), dkLen |-> Num(0), hash |-> ""]

NoEngine ==
    [pc |-> "idle", args |-> NoArgs, P |-> NumberValue, hLen |-> 0,
     l |-> Num(0), r |-> Num(0), T |-> <<>>, Pkey |-> [raw |-> <<>>, hash |-> ""],
     i |-> 0, j |-> 0, heap |-> <<>>, Uacc |-> 0, UjMinus1 |-> 0, msg |-> <<>>,
     calls |-> <<>>, settled |-> 0, promise |-> Pending]

\* variant of the check of c: c < 0
BadC_negativeOnly(c) == ~NumberIsInteger(c) \/ LessThan(c, Num(0))

\* !Number.isInteger(c) || c <= 0
BadC(c) == ~NumberIsInteger(c) \/ LessOrEqual(c, Num(0))

\* variant of the check of dkLen: dkLen > (2 ** 32 - 1) * hLen
BadDkLen_limitAllowed(dkLen, hLen) ==
    \/ ~NumberIsInteger(dkLen)
    \/ LessOrEqual(dkLen, Num(0))
    \/ LessThan(DkLimit(hLen), dkLen)

\* variant of the check of dkLen: no upper limit
BadDkLen_noLimit(dkLen, hLen) ==
    \/ ~NumberIsInteger(dkLen)
    \/ LessOrEqual(dkLen, Num(0))

\* !Number.isInteger(dkLen) || dkLen <= 0 || dkLen >= (2 ** 32 - 1) * hLen
BadDkLen(dkLen, hLen) ==
    \/ ~NumberIsInteger(dkLen)
    \/ LessOrEqual(dkLen, Num(0))
    \/ ~LessThan(dkLen, DkLimit(hLen))

\* the throw of _pbkdf2 before its first await, "none" if it reaches it.
\* For an inherited key (hash in HASHALGS, yet no own entry) outputLength is
\* undefined: the comparison with NaN is false and new Array(NaN) throws.
EngineThrows(a) ==
    IF ~HashInHASHALGS(a.hash) THEN "InvalidAlgorithm"
    ELSE IF BadC(a.c) THEN "InvalidIterationCount"
    ELSE IF a.hash \in HashAlg
         THEN (IF BadDkLen(a.dkLen, HASHALGS[a.hash].outputLength) THEN "InvalidLength" ELSE "none")
         ELSE (IF ~NumberIsInteger(a.dkLen) \/ LessOrEqual(a.dkLen, Num(0))
               THEN "InvalidLength" ELSE "InvalidArrayLength")

\* variant of l: Math.floor(dkLen / hLen) + 1
BlockCount_floor(dkLen, hLen) == MathCeilDiv(Plus(dkLen, 1), hLen)

\* l = Math.ceil(dkLen / hLen)
BlockCount(dkLen, hLen) == MathCeilDiv(dkLen, hLen)

\* r = dkLen - (l - 1) * hLen
LastBlockLen(dkLen, l, hLen) == Minus(dkLen, Times(Plus(l, -1), hLen))

\* variant of the substitution: hLen zero bytes instead of blockSize
SubstituteP_outputLength(P, hash) ==
    IF IsView(P) /\ P.byteLength = 0 THEN Uint8ArrayOf(Zeros(HASHALGS[hash].outputLength)) ELSE P

\* if (P.byteLength === 0) P = new Uint8Array(HASHALGS[hash].blockSize)
SubstituteP(P, hash) ==
    IF IsView(P) /\ P.byteLength = 0 THEN Uint8ArrayOf(Zeros(HASHALGS[hash].blockSize)) ELSE P

\* HMAC(key, arr): crypto.subtle.sign('HMAC', key, arr) as a Uint8Array
HMAC(key, arr) == HMACBytes(NodeAlg(key.hash), key.raw, arr)

\* variant of a failure of the engine: the error is lost and the promise of
\* _pbkdf2 stays pending
EngineFail_lost(m, err) == [m EXCEPT !.pc = "failed"]

\* the engine fails: the promise of _pbkdf2 is rejected
EngineFail(m, err) ==
    [m EXCEPT !.pc = "settled", !.promise = reject(m.promise, err)]

\* variant of line 122: the zero bytes are put into the array the caller
\* passed instead of a new array bound to the local P
Pbkdf2Call_substituteInPlace(a) ==
    LET m0  == [NoEngine EXCEPT !.args = a, !.P = a.P]
        err == EngineThrows(a)
    IN  IF err # "none" THEN EngineFail(m0, err)
        ELSE LET hLen == HASHALGS[a.hash].outputLength
                 l    == BlockCount(a.dkLen, hLen)
             IN  [m0 EXCEPT !.hLen = hLen, !.l = l,
                            !.r = LastBlockLen(a.dkLen, l, hLen),
                            !.P = SubstituteP(a.P, a.hash),
                            !.args.P = SubstituteP(a.P, a.hash),
                            !.calls = <<"importKey:HMAC">>,
                            !.pc = "importKey"]

\* _pbkdf2(P, S, c, dkLen, hash) up to its first await (lines 87-133)
Pbkdf2Call(a) ==
    LET m0  == [NoEngine EXCEPT !.args = a, !.P = a.P]
        err == EngineThrows(a)
    IN  IF err # "none" THEN EngineFail(m0, err)
        ELSE LET hLen == HASHALGS[a.hash].outputLength
                 l    == BlockCount(a.dkLen, hLen)
             IN  [m0 EXCEPT !.hLen = hLen, !.l = l,
                            !.r = LastBlockLen(a.dkLen, l, hLen),
                            !.P = SubstituteP(a.P, a.hash),
                            !.calls = <<"importKey:HMAC">>,
                            !.pc = "importKey"]

\* F(Pkey, S, c, i) up to its first await: HMAC(P, concat(S, INT(i))).
\* concat of a value that is no array (S of an unsupported type) ends in
\* result.set(INT(i), NaN) on an empty array, a RangeError.
\* variant of F: the first message of block i also holds block i - 1, read
\* from T
StartF_chained(m, i) ==
    IF ~IsView(m.args.S) THEN EngineFail(m, "OffsetOutOfBounds")
    ELSE LET prev == IF i > 1 /\ i - 1 <= Len(m.T) THEN m.T[i - 1] ELSE <<>>
         IN  [m EXCEPT !.msg = concat(<<BytesOf(m.args.S), prev, INT(i)>>).bytes,
                       !.heap = <<>>, !.Uacc = 0, !.UjMinus1 = 0, !.j = 0,
                       !.calls = Append(m.calls, "sign"),
                       !.pc = "signU1"]

StartF(m, i) ==
    IF ~IsView(m.args.S) THEN EngineFail(m, "OffsetOutOfBounds")
    ELSE [m EXCEPT !.msg = concat(<<BytesOf(m.args.S), INT(i)>>).bytes,
                   !.heap = <<>>, !.Uacc = 0, !.UjMinus1 = 0, !.j = 0,
                   !.calls = Append(m.calls, "sign"),
                   !.pc = "signU1"]

\* lines 197-199: truncate the last block, concatenate, return the buffer
Finish(m) ==
    LET n == Small(m.l)
    IN  IF n < 1 \/ n > Len(m.T) THEN EngineFail(m, "TypeError")
        ELSE LET T2 == [m.T EXCEPT ![n] = Slice0(m.T[n], Small(m.r))]
                 dk == concat(T2)
             IN  IF dk.throws THEN EngineFail(m, "CannotConcat")
                 ELSE [m EXCEPT !.T = T2, !.pc = "settled",
                                !.promise = resolve(m.promise, dk.bytes)]

\* the platform operation the engine awaits has settled
OpSettled(m) == [m EXCEPT !.settled = m.settled + 1]

\* variant of the loop of F without the await: the HMAC calls for U_{j+1} and
\* U_{j+2} are issued together
FNext_noAwait(m) ==
    IF FLoopContinues(m.j, Small(m.args.c))
    THEN [m EXCEPT !.msg = m.heap[m.UjMinus1],
                   !.calls = m.calls \o <<"sign", "sign">>,
                   !.pc = "signUj"]
    ELSE [m EXCEPT !.pc = "return"]

\* F after an HMAC completed: the loop test, then the next HMAC (its input
\* is read when sign is called) or return Uacc
FNext(m) ==
    IF FLoopContinues(m.j, Small(m.args.c))
    THEN [m EXCEPT !.msg = m.heap[m.UjMinus1],
                   !.calls = Append(m.calls, "sign"),
                   !.pc = "signUj"]
    ELSE [m EXCEPT !.pc = "return"]

\* variant of the block loop: the block index of F is the loop variable i
NextBlock_zeroBased(m) ==
    IF LessThan(Num(m.i), m.l) THEN StartF(m, m.i) ELSE Finish(m)

\* for (let i = 0; i < l; i++) T[i] = await F(Pkey, S, c, i + 1): the loop
\* test, then the call of F for the next block or lines 197-199
NextBlock(m) ==
    IF LessThan(Num(m.i), m.l) THEN StartF(m, m.i + 1) ELSE Finish(m)

\* F went on after an HMAC: when it returned, T[i] = Uacc, i++ and the block
\* loop of _pbkdf2 goes on
ContinueF(m) ==
    LET m1 == FNext(m)
    IN  IF m1.pc = "return"
        THEN NextBlock([m1 EXCEPT !.T = Append(m1.T, m1.heap[m1.Uacc]), !.i = m1.i + 1])
        ELSE m1

\* const Uacc = await HMAC(...); let UjMinus1 = Uacc; j = 1
GotU1(m) ==
    [OpSettled(m) EXCEPT !.heap = <<HMAC(m.Pkey, m.msg)>>, !.Uacc = 1, !.UjMinus1 = 1, !.j = 1]

AfterU1(m) == ContinueF(GotU1(m))

\* variant of the loop body: UjMinus1 stays bound to the accumulator, the
\* new iterate is folded into it
GotUj_aliased(m) ==
    LET heap1 == Append(m.heap, HMAC(m.Pkey, m.msg))
        uj    == Len(heap1)
        heap2 == [heap1 EXCEPT ![m.Uacc] = xorMe(heap1[m.Uacc], heap1[uj])]
    IN  [OpSettled(m) EXCEPT !.heap = heap2, !.UjMinus1 = m.Uacc, !.j = m.j + 1]

\* UjMinus1 = await HMAC(P, UjMinus1); xorMe(Uacc, UjMinus1); j++
GotUj(m) ==
    LET heap1 == Append(m.heap, HMAC(m.Pkey, m.msg))
        uj    == Len(heap1)
        heap2 == [heap1 EXCEPT ![m.Uacc] = xorMe(heap1[m.Uacc], heap1[uj])]
    IN  [OpSettled(m) EXCEPT !.heap = heap2, !.UjMinus1 = uj, !.j = m.j + 1]

AfterUj(m) == ContinueF(GotUj(m))

\* const Pkey = await crypto.subtle.importKey('raw', P, { name: 'HMAC', ... })
GotPkey(m) ==
    [OpSettled(m) EXCEPT !.Pkey = [raw |-> BytesOf(m.P), hash |-> m.args.hash], !.i = 0]

\* after the HMAC key import the block loop starts with i = 0
AfterImportKey(m) == NextBlock(GotPkey(m))

(***************************************************************************)
(* The platform primitives, external to the repository.  A primitive may   *)
(* fail on any call; it succeeds only on arguments PBKDF2 is defined for,  *)
(* and then returns the RFC 2898 key.  Keys longer than MaxBlocks blocks   *)
(* are refused (a platform output-length ceiling).                         *)
(***************************************************************************)
PlatformDefined(a, digest) ==
    /\ digest \in DOMAIN PlatformDigest
    /\ IsBufferSource(a.P) /\ IsBufferSource(a.S)
    /\ NumberIsInteger(a.c) /\ IsSmall(a.c) /\ Small(a.c) >= 1
    /\ NumberIsInteger(a.dkLen) /\ IsSmall(a.dkLen) /\ Small(a.dkLen) >= 1
    /\ Small(a.dkLen) <= MaxBlocks * PlatformDigest[digest].outputLength

PlatformPBKDF2(a, digest) ==
    RefPBKDF2(digest, BytesOf(a.P), BytesOf(a.S), Small(a.c), Small(a.dkLen))

\* crypto.subtle.deriveBits knows the four hashes of HASHALGS only
DeriveBitsDefined(a) == a.hash \in HashAlg /\ PlatformDefined(a, NodeAlg(a.hash))

(***************************************************************************)
(* State.                                                                  *)
(***************************************************************************)
VARIABLES
    IS_BROWSER,   \* the build: TRUE the browser bundle, FALSE the node one
    args,         \* the arguments of the call [P, S, c, dkLen, hash]
    pc,           \* the callback the invocation waits for
    P, S,         \* the parameters P and S as the executor rebinds them
    promise,      \* the promise pbkdf2Hmac returned
    settleLog,    \* the resolve / reject calls made so far, in order
    cryptoLog,    \* the platform crypto operations pbkdf2Hmac itself started
    nativeArgs,   \* the arguments handed to the platform PBKDF2, if any
    m,            \* the manual engine _pbkdf2
    par,          \* the blocks of the engine computed in any order
    cc            \* a call of concat, statement by statement

vars == <<IS_BROWSER, args, pc, P, S, promise, settleLog, cryptoLog, nativeArgs, m, par, cc>>

\* the parameters of pbkdf2Hmac, hash with its default
Params == [args EXCEPT !.hash = HashParam(args.hash)]

\* every platform crypto operation the invocation started, in order
CryptoOps == cryptoLog \o m.calls

\* no blocks computed out of order
NoPar == [pc |-> "idle", env |-> NoEngine, F |-> <<>>, T |-> <<>>, order |-> <<>>, key |-> <<>>]

\* no call of concat followed
NoConcat == [pc |-> "idle", arrs |-> <<>>, passed |-> <<>>, totalLength |-> 0,
             result |-> <<>>, length |-> 0, k |-> 0, error |-> "none"]

Init ==
    /\ par = NoPar
    /\ cc = NoConcat
    /\ IS_BROWSER \in BOOLEAN
    /\ \E hash \in Hashes :
         args \in [P : PInputs, S : SInputs, c : CInputs,
                   dkLen : DkLenInputs(HashParam(hash)), hash : {hash}]
    /\ pc = "start"
    /\ P = args.P
    /\ S = args.S
    /\ promise = Pending
    /\ settleLog = <<>>
    /\ cryptoLog = <<>>
    /\ nativeArgs = <<>>
    /\ m = NoEngine

(***************************************************************************)
(* pbkdf2Hmac: the promise executor, lines 42-83, run synchronously.       *)
(* reject does not leave the executor: the code after it still runs.       *)
(***************************************************************************)
NormalizeP(p) ==
    IF p.type = "string" THEN TextEncoderEncode(p)
    ELSE IF p.type = "ArrayBuffer" THEN Uint8ArrayOf(p.buffer)
    ELSE p

\* variant of the rebinding of S: a view is replaced by a view of its whole
\* buffer
NormalizeS_wholeBuffer(x) ==
    IF x.type = "string" THEN TextEncoderEncode(x)
    ELSE IF x.type = "ArrayBuffer" THEN Uint8ArrayOf(x.buffer)
    ELSE IF IsView(x) THEN Uint8ArrayOf(x.buffer)
    ELSE x

NormalizeS(x) ==
    IF x.type = "string" THEN TextEncoderEncode(x)
    ELSE IF x.type = "ArrayBuffer" THEN Uint8ArrayOf(x.buffer)
    ELSE IF IsView(x) THEN ViewOf(x.buffer, x.byteOffset, x.byteLength)
    ELSE x

\* variant of the executor's checks: the types of P and S are not checked
ExecutorRejects_hashOnly(a) ==
    IF ~HashInHASHALGS(a.hash) THEN <<"InvalidAlgorithm">> ELSE <<>>

\* the reject calls of lines 43-54, in order
ExecutorRejects(a) ==
    (IF ~HashInHASHALGS(a.hash) THEN <<"InvalidAlgorithm">> ELSE <<>>)
    \o (IF a.P.type \notin {"string", "ArrayBuffer"} /\ ~IsView(a.P) THEN <<"InvalidP">> ELSE <<>>)
    \o (IF a.S.type \notin {"string", "ArrayBuffer"} /\ ~IsView(a.S) THEN <<"InvalidS">> ELSE <<>>)

RECURSIVE RejectAll(_, _)
RejectAll(p, errs) ==
    IF errs = <<>> THEN p ELSE RejectAll(reject(p, Head(errs)), Tail(errs))

Executor ==
    /\ pc = "start"
    /\ P' = NormalizeP(args.P)
    /\ S' = NormalizeS(args.S)
    /\ promise' = RejectAll(promise, ExecutorRejects(Params))
    /\ settleLog' = settleLog \o ExecutorRejects(Params)
    /\ IF IS_BROWSER
       THEN /\ cryptoLog' = Append(cryptoLog, "importKey:PBKDF2")
            /\ pc' = "importKey"
       ELSE /\ cryptoLog' = cryptoLog
            /\ pc' = "importCrypto"
    /\ UNCHANGED <<IS_BROWSER, args, nativeArgs, m, par, cc>>

(***************************************************************************)
(* Browser path, lines 57-73.                                              *)
(***************************************************************************)
\* importKey('raw', P, 'PBKDF2', ...) settles
ImportKeyDone ==
    /\ pc = "importKey"
    /\ \E ok \in BOOLEAN :
         /\ ok => IsBufferSource(P)
         /\ IF ok
            THEN /\ nativeArgs' = <<[P |-> P, S |-> S, c |-> args.c, dkLen |-> args.dkLen, hash |-> Params.hash]>>
                 /\ cryptoLog' = Append(cryptoLog, "deriveBits")
                 /\ pc' = "deriveBits"
                 /\ UNCHANGED <<promise, settleLog>>
            ELSE /\ promise' = reject(promise, "PlatformError")
                 /\ settleLog' = Append(settleLog, "PlatformError")
                 /\ pc' = "done"
                 /\ UNCHANGED <<nativeArgs, cryptoLog>>
    /\ UNCHANGED <<IS_BROWSER, args, P, S, m, par, cc>>

\* deriveBits fulfils: derivedKey => resolve(derivedKey)
DeriveBitsOk ==
    /\ pc = "deriveBits"
    /\ DeriveBitsDefined(nativeArgs[1])
    /\ promise' = resolve(promise, PlatformPBKDF2(nativeArgs[1], NodeAlg(Params.hash)))
    /\ settleLog' = Append(settleLog, "resolve")
    /\ pc' = "done"
    /\ UNCHANGED <<IS_BROWSER, args, P, S, cryptoLog, nativeArgs, m, par, cc>>

\* deriveBits rejects: the manual engine is called with the same parameters
DeriveBitsFails ==
    /\ pc = "deriveBits"
    /\ m' = Pbkdf2Call([P |-> P, S |-> S, c |-> args.c, dkLen |-> args.dkLen, hash |-> Params.hash])
    /\ pc' = "fallback"
    /\ UNCHANGED <<IS_BROWSER, args, P, S, promise, settleLog, cryptoLog, nativeArgs, par, cc>>

\* the awaited importKey of the engine settles
EngineImportKeyDone ==
    /\ pc = "fallback" /\ m.pc = "importKey"
    /\ LessOrEqual(m.l, Num(MaxBlocks))
    /\ \E ok \in BOOLEAN :
         m' = IF ok THEN AfterImportKey(m) ELSE EngineFail(OpSettled(m), "PlatformError")
    /\ UNCHANGED <<IS_BROWSER, args, pc, P, S, promise, settleLog, cryptoLog, nativeArgs, par, cc>>

\* the awaited sign for U_1 settles
EngineSignU1Done ==
    /\ pc = "fallback" /\ m.pc = "signU1"
    /\ \E ok \in BOOLEAN :
         m' = IF ok THEN AfterU1(m) ELSE EngineFail(OpSettled(m), "PlatformError")
    /\ UNCHANGED <<IS_BROWSER, args, pc, P, S, promise, settleLog, cryptoLog, nativeArgs, par, cc>>

\* the awaited sign for U_j, j >= 2, settles
EngineSignUjDone ==
    /\ pc = "fallback" /\ m.pc = "signUj"
    /\ \E ok \in BOOLEAN :
         m' = IF ok THEN AfterUj(m) ELSE EngineFail(OpSettled(m), "PlatformError")
    /\ UNCHANGED <<IS_BROWSER, args, pc, P, S, promise, settleLog, cryptoLog, nativeArgs, par, cc>>

\* the promise of _pbkdf2 settled: derivedKey => resolve(derivedKey),
\* error => reject(error)
FallbackSettled ==
    /\ pc = "fallback" /\ m.pc = "settled"
    /\ IF m.promise.state = "fulfilled"
       THEN /\ promise' = resolve(promise, m.promise.key)
            /\ settleLog' = Append(settleLog, "resolve")
       ELSE /\ promise' = reject(promise, m.promise.error)
            /\ settleLog' = Append(settleLog, m.promise.error)
    /\ pc' = "done"
    /\ UNCHANGED <<IS_BROWSER, args, P, S, cryptoLog, nativeArgs, m, par, cc>>

(***************************************************************************)
(* Node path, lines 75-81.                                                 *)
(***************************************************************************)
\* import('crypto') settles; crypto.pbkdf2(...) is called and may throw at
\* once on an argument it refuses, which .catch(reject) turns into reject
ImportCryptoDone ==
    /\ pc = "importCrypto"
    /\ LET a == [P |-> P, S |-> S, c |-> args.c, dkLen |-> args.dkLen, hash |-> Params.hash]
       IN  IF PlatformDefined(a, NodeAlg(Params.hash))
           THEN /\ nativeArgs' = <<a>>
                /\ cryptoLog' = Append(cryptoLog, "crypto.pbkdf2")
                /\ pc' = "pbkdf2"
                /\ UNCHANGED <<promise, settleLog>>
           ELSE /\ promise' = reject(promise, "PlatformError")
                /\ settleLog' = Append(settleLog, "PlatformError")
                /\ pc' = "done"
                /\ cryptoLog' = Append(cryptoLog, "crypto.pbkdf2")
                /\ UNCHANGED nativeArgs
    /\ UNCHANGED <<IS_BROWSER, args, P, S, m, par, cc>>

\* the callback of crypto.pbkdf2: if (err != null) reject(err)
\* else resolve(derivedKey.buffer)
Pbkdf2Callback ==
    /\ pc = "pbkdf2"
    /\ \E ok \in BOOLEAN :
         IF ok
         THEN /\ promise' = resolve(promise, PlatformPBKDF2(nativeArgs[1], NodeAlg(Params.hash)))
              /\ settleLog' = Append(settleLog, "resolve")
         ELSE /\ promise' = reject(promise, "PlatformError")
              /\ settleLog' = Append(settleLog, "PlatformError")
    /\ pc' = "done"
    /\ UNCHANGED <<IS_BROWSER, args, P, S, cryptoLog, nativeArgs, m, par, cc>>

Next ==
    \/ Executor
    \/ ImportKeyDone
    \/ DeriveBitsOk
    \/ DeriveBitsFails
    \/ EngineImportKeyDone
    \/ EngineSignU1Done
    \/ EngineSignUjDone
    \/ FallbackSettled
    \/ ImportCryptoDone
    \/ Pbkdf2Callback

Spec == Init /\ [][Next]_vars

(***************************************************************************)
(* Progress.  Every platform operation completes, with success or failure, *)
(* and the executor and the reactions of settled promises are run.         *)
(***************************************************************************)
\* deriveBits completes: DeriveBitsFails is possible for as long as it has
\* not (a success is what else ends the wait)
Fairness ==
    /\ WF_vars(Executor)
    /\ WF_vars(ImportKeyDone)
    /\ WF_vars(DeriveBitsFails)
    /\ WF_vars(EngineImportKeyDone)
    /\ WF_vars(EngineSignU1Done)
    /\ WF_vars(EngineSignUjDone)
    /\ WF_vars(FallbackSettled)
    /\ WF_vars(ImportCryptoDone)
    /\ WF_vars(Pbkdf2Callback)

SpecLive == Spec /\ Fairness

(***************************************************************************)
(* The blocks in any order.  After deriveBits failed on a valid call the   *)
(* engine runs its loop (m); once it returned its key, par computes the    *)
(* same l blocks with the calls F(Pkey, S, c, i) started in any order and  *)
(* their awaits settling in any interleaving.  The calls share what F      *)
(* finds in its scope (Pkey, S, c and the array T, written by index as     *)
(* calls return); every call has its own locals Uacc, UjMinus1 and j.      *)
(***************************************************************************)
ParHashes == {"SHA-1"}

InitPar ==
    /\ IS_BROWSER = TRUE
    /\ \E hash \in ParHashes :
         args \in [P : {Str(<<>>), ViewOf(<<0, 112, 195, 169, 0>>, 1, 3)},
                   S : {Str(<<115>>)},
                   c : {Num(n) : n \in 1..MaxC},
                   dkLen : {Num(HASHALGS[hash].outputLength + 1),
                            Num((MaxBlocks - 1) * HASHALGS[hash].outputLength + 1)},
                   hash : {hash}]
    /\ pc = "fallback"
    /\ P = NormalizeP(args.P)
    /\ S = NormalizeS(args.S)
    /\ promise = Pending
    /\ settleLog = <<>>
    /\ cryptoLog = <<"importKey:PBKDF2", "deriveBits">>
    /\ nativeArgs = <<[P |-> P, S |-> S, c |-> args.c, dkLen |-> args.dkLen, hash |-> Params.hash]>>
    /\ m = Pbkdf2Call(nativeArgs[1])
    /\ par = [NoPar EXCEPT !.pc = "importKey", !.env = m]
    /\ cc = NoConcat

\* the scope a call of F runs in: T as it is now
ParScope == [par.env EXCEPT !.T = par.T]

\* the call of F for block i went on after an HMAC: T[i] = Uacc when it
\* returned
ParContinueF(i, f) ==
    LET f1 == FNext(f)
    IN  IF f1.pc = "return"
        THEN [par EXCEPT !.F[i] = f1, !.T[i] = f1.heap[f1.Uacc],
                         !.order = Append(par.order, i)]
        ELSE [par EXCEPT !.F[i] = f1]

\* the HMAC key import settles: T = new Array(l)
ParImportKeyDone ==
    /\ par.pc = "importKey"
    /\ m.promise.state = "fulfilled"
    /\ par' = [par EXCEPT !.pc = "blocks",
                          !.env = GotPkey(par.env),
                          !.T = [k \in 1..Small(par.env.l) |-> <<>>],
                          !.F = [k \in 1..Small(par.env.l) |-> NoEngine]]
    /\ UNCHANGED <<IS_BROWSER, args, pc, P, S, promise, settleLog, cryptoLog, nativeArgs, m, cc>>

\* F(Pkey, S, c, i) is called for a block not started yet
ParStartF ==
    /\ par.pc = "blocks"
    /\ \E i \in DOMAIN par.F :
         /\ par.F[i].pc = "idle"
         /\ par' = [par EXCEPT !.F[i] = StartF(ParScope, i)]
    /\ UNCHANGED <<IS_BROWSER, args, pc, P, S, promise, settleLog, cryptoLog, nativeArgs, m, cc>>

\* the sign for U_1 of some block settles
ParSignU1Done ==
    /\ par.pc = "blocks"
    /\ \E i \in DOMAIN par.F :
         /\ par.F[i].pc = "signU1"
         /\ par' = ParContinueF(i, GotU1(par.F[i]))
    /\ UNCHANGED <<IS_BROWSER, args, pc, P, S, promise, settleLog, cryptoLog, nativeArgs, m, cc>>

\* the sign for U_j, j >= 2, of some block settles
ParSignUjDone ==
    /\ par.pc = "blocks"
    /\ \E i \in DOMAIN par.F :
         /\ par.F[i].pc = "signUj"
         /\ par' = ParContinueF(i, GotUj(par.F[i]))
    /\ UNCHANGED <<IS_BROWSER, args, pc, P, S, promise, settleLog, cryptoLog, nativeArgs, m, cc>>

\* every call of F returned: lines 197-199 on the T they filled
ParJoin ==
    /\ par.pc = "blocks"
    /\ \A i \in DOMAIN par.F : par.F[i].pc = "return"
    /\ par' = [par EXCEPT !.pc = "joined",
                          !.key = Finish([ParScope EXCEPT !.i = Small(par.env.l)]).promise.key]
    /\ UNCHANGED <<IS_BROWSER, args, pc, P, S, promise, settleLog, cryptoLog, nativeArgs, m, cc>>

NextPar ==
    \/ EngineImportKeyDone
    \/ EngineSignU1Done
    \/ EngineSignUjDone
    \/ ParImportKeyDone
    \/ ParStartF
    \/ ParSignU1Done
    \/ ParSignUjDone
    \/ ParJoin

SpecPar == InitPar /\ [][NextPar]_vars

(***************************************************************************)
(* concat, lines 202-219, statement by statement, on argument lists of up  *)
(* to MaxArrs arrays, next to an engine run (after deriveBits failed on a  *)
(* valid call) that calls concat for its messages and for its key.         *)
(***************************************************************************)
\* the arrays concat is called with: 0 to 2 bytes each
ConcatArrays == { [k \in 1..n |-> first + k] : n \in 0..2, first \in {0, 200} }

RECURSIVE SeqsUpTo(_, _)
SeqsUpTo(set, n) ==
    IF n = 0 THEN {<<>>}
    ELSE LET shorter == SeqsUpTo(set, n - 1)
         IN  shorter \cup { Append(q, x) : q \in shorter, x \in set }

InitConcat ==
    /\ IS_BROWSER = TRUE
    /\ args \in [P : {Str(<<112, 233>>)}, S : {Str(<<115>>)}, c : {Num(1)},
                 dkLen : {Num(1), Num(21)}, hash : {"SHA-1"}]
    /\ pc = "fallback"
    /\ P = NormalizeP(args.P)
    /\ S = NormalizeS(args.S)
    /\ promise = Pending
    /\ settleLog = <<>>
    /\ cryptoLog = <<"importKey:PBKDF2", "deriveBits">>
    /\ nativeArgs = <<[P |-> P, S |-> S, c |-> args.c, dkLen |-> args.dkLen, hash |-> Params.hash]>>
    /\ m = Pbkdf2Call(nativeArgs[1])
    /\ par = NoPar
    /\ \E arrs \in SeqsUpTo(ConcatArrays, MaxArrs) :
         cc = [NoConcat EXCEPT !.pc = "call", !.arrs = arrs, !.passed = arrs]

\* arrs.reduce((acc, value) => acc + value.length, 0)
RECURSIVE SumOfLengths(_)
SumOfLengths(arrs) ==
    IF arrs = <<>> THEN 0 ELSE Len(Head(arrs)) + SumOfLengths(Tail(arrs))

\* variant of result.set: every array is copied at the start of result
TypedArraySet_atStart(target, source, offset) ==
    [k \in 1..Len(target) |-> IF k <= Len(source) THEN source[k] ELSE target[k]]

\* target.set(source, offset): the new content of target
TypedArraySet(target, source, offset) ==
    [k \in 1..Len(target) |->
        IF offset < k /\ k <= offset + Len(source) THEN source[k - offset] ELSE target[k]]

\* totalLength, the throw on no arrays, new Uint8Array(totalLength), length = 0
ConcatCall ==
    /\ cc.pc = "call"
    /\ cc' = IF Len(cc.arrs) = 0
             THEN [cc EXCEPT !.pc = "thrown", !.error = "RangeError",
                             !.totalLength = SumOfLengths(cc.arrs)]
             ELSE [cc EXCEPT !.pc = "loop", !.k = 1, !.length = 0,
                             !.totalLength = SumOfLengths(cc.arrs),
                             !.result = Zeros(SumOfLengths(cc.arrs))]
    /\ UNCHANGED <<IS_BROWSER, args, pc, P, S, promise, settleLog, cryptoLog, nativeArgs, m, par>>

\* one turn of for (const array of arrs)
ConcatSet ==
    /\ cc.pc = "loop" /\ cc.k <= Len(cc.arrs)
    /\ cc' = [cc EXCEPT !.result = TypedArraySet(cc.result, cc.arrs[cc.k], cc.length),
                        !.length = cc.length + Len(cc.arrs[cc.k]),
                        !.k = cc.k + 1]
    /\ UNCHANGED <<IS_BROWSER, args, pc, P, S, promise, settleLog, cryptoLog, nativeArgs, m, par>>

\* return result
ConcatReturn ==
    /\ cc.pc = "loop" /\ cc.k > Len(cc.arrs)
    /\ cc' = [cc EXCEPT !.pc = "returned"]
    /\ UNCHANGED <<IS_BROWSER, args, pc, P, S, promise, settleLog, cryptoLog, nativeArgs, m, par>>

NextConcat ==
    \/ ConcatCall
    \/ ConcatSet
    \/ ConcatReturn
    \/ EngineImportKeyDone
    \/ EngineSignU1Done

SpecConcat == InitConcat /\ [][NextConcat]_vars

(***************************************************************************)
(* Properties.                                                             *)
(***************************************************************************)
Coercible(x) == x.type \in {"string", "ArrayBuffer", "view"}

\* 0 < dkLen < (2^32 - 1) * hLen, dkLen an integer
DkLenInRange(dkLen, hLen) ==
    /\ NumberIsInteger(dkLen)
    /\ LessThan(Num(0), dkLen)
    /\ LessThan(dkLen, DkLimit(hLen))

PositiveInteger(c) == NumberIsInteger(c) /\ LessThan(Num(0), c)

ValidInputs(a) ==
    /\ a.hash \in HashAlg
    /\ PositiveInteger(a.c)
    /\ DkLenInRange(a.dkLen, HASHALGS[a.hash].outputLength)
    /\ Coercible(a.P) /\ Coercible(a.S)

EngineCalled == m.pc # "idle"

EngineDigest == NodeAlg(m.args.hash)

\* the block F(P', S, c, k) of the derivation the engine is running
EngineRefF(k) ==
    RefF(EngineDigest, BytesOf(m.P), BytesOf(m.args.S), Small(m.args.c), k)

\* C1: every block F returned is U_1 xor ... xor U_c with
\* U_1 = HMAC(P', S || BE32(i)), U_j = HMAC(P', U_{j-1}); the blocks are the
\* entries of T, the last of which the engine cuts to r bytes at its end.
C1_BlockIsXorOfIterates ==
    \A k \in 1..Len(m.T) :
        m.T[k] = IF m.promise.state = "fulfilled" /\ k = Len(m.T)
                 THEN SubSeq(EngineRefF(k), 1, Small(m.r))
                 ELSE EngineRefF(k)

C1_Witness ==
    /\ m.pc = "signU1" /\ Len(m.T) = 1 /\ Small(m.args.c) = 3
    /\ m.T[1] = EngineRefF(1)

\* C2: the key the engine returns is T_1 || ... || T_{l-1} || T_l[0..r-1]
\* with l = ceil(dkLen / hLen) and r = dkLen - (l - 1) * hLen.
C2_KeyIsBlocksInOrder ==
    m.promise.state = "fulfilled" =>
        LET DK   == m.promise.key
            hLen == HASHALGS[m.args.hash].outputLength
            dk   == Small(m.args.dkLen)
            l    == (dk + hLen - 1) \div hLen
            r    == dk - (l - 1) * hLen
        IN  /\ Len(DK) = (l - 1) * hLen + r
            /\ \A k \in 1..(l - 1) :
                 SubSeq(DK, (k - 1) * hLen + 1, k * hLen) = EngineRefF(k)
            /\ SubSeq(DK, (l - 1) * hLen + 1, Len(DK)) = SubSeq(EngineRefF(l), 1, r)

C2_Witness ==
    /\ m.promise.state = "fulfilled"
    /\ LessThan(Num(1), m.l)
    /\ Small(m.r) < m.hLen

C4_FallbackTransparent ==
    (pc = "done" /\ m.promise.state = "fulfilled") =>
        /\ m.args = nativeArgs[1]
        /\ DeriveBitsDefined(nativeArgs[1])
        /\ promise.state = "fulfilled"
        /\ promise.key = PlatformPBKDF2(nativeArgs[1], NodeAlg(Params.hash))

C4_Witness ==
    /\ pc = "done" /\ m.promise.state = "fulfilled"
    /\ args.P = Str(<<>>) /\ Small(args.c) = 2
    /\ promise.key = PlatformPBKDF2(nativeArgs[1], NodeAlg(Params.hash))

\* C5 (as claimed): a call with a hash outside the four names ends rejected
\* with the invalid-algorithm error and never fulfilled.
C5_BadHashRejected ==
    (Params.hash \notin HashAlg) =>
        /\ promise.state # "fulfilled"
        /\ pc = "done" => (promise.state = "rejected" /\ promise.error = "InvalidAlgorithm")

\* the inputs fail validation
FailsValidation(a) == ~ValidInputs(a)

\* C6 (as claimed): when the inputs fail validation no platform crypto
\* operation of the invocation is started.
C6_NoCryptoAfterValidationFailure ==
    FailsValidation(Params) => CryptoOps = <<>>

C8_BadCRejected ==
    (EngineCalled /\ ~PositiveInteger(m.args.c)) =>
        /\ m.promise.state = "rejected" /\ m.promise.error = "InvalidIterationCount"
        /\ m.calls = <<>> /\ m.T = <<>>

\* C8 (amended): the same when the hash passed the hash check of the engine
\* (which comes first); otherwise the invalid-algorithm error is thrown.
C8_BadCRejectedAfterHashCheck ==
    (EngineCalled /\ ~PositiveInteger(m.args.c)) =>
        /\ m.promise.state = "rejected"
        /\ m.promise.error = IF HashInHASHALGS(m.args.hash)
                             THEN "InvalidIterationCount" ELSE "InvalidAlgorithm"
        /\ m.calls = <<>> /\ m.T = <<>>

C8_Witness ==
    /\ EngineCalled /\ m.args.c = Num(0) /\ m.args.hash \in HashAlg
    /\ m.promise.error = "InvalidIterationCount"

C9_WitnessAccepted ==
    /\ EngineCalled /\ m.args.hash = "SHA-1"
    /\ m.args.dkLen = Plus(DkLimit(20), -1)
    /\ m.pc = "importKey"

\* C10 (as claimed): with P or S of an unsupported type the promise is
\* rejected with the invalid-input-type error and never fulfilled.
C10_BadTypeRejected ==
    ((~Coercible(args.P) \/ ~Coercible(args.S)) /\ pc # "start") =>
        /\ promise.state = "rejected"
        /\ promise.error \in {"InvalidP", "InvalidS"}

\* C10 (amended): the promise is rejected by the executor and never
\* fulfilled; the error is the invalid-input-type one when the hash check
\* passed, the invalid-algorithm one of the earlier check otherwise.
C10_BadTypeRejectedAfterHashCheck ==
    ((~Coercible(args.P) \/ ~Coercible(args.S)) /\ pc # "start") =>
        /\ promise.state = "rejected"
        /\ promise.error = IF ~HashInHASHALGS(Params.hash) THEN "InvalidAlgorithm"
                           ELSE IF ~Coercible(args.P) THEN "InvalidP" ELSE "InvalidS"
        /\ promise.error \in RangeErrors

C10_Witness ==
    /\ pc = "done" /\ ~Coercible(args.S) /\ Coercible(args.P)
    /\ Params.hash \in HashAlg
    /\ promise.state = "rejected" /\ promise.error = "InvalidS"
    /\ Len(settleLog) > 1

\* the engine passed its validation and went on to the derivation
EngineDerives == EngineCalled /\ m.calls # <<>>

\* C13: when P has zero bytes the engine keys HMAC with blockSize zero bytes
\* (64 for SHA-1 and SHA-256, 128 for SHA-384 and SHA-512), never with a
\* zero-length key, and the key it returns has dkLen bytes and is the
\* derivation with that key.
C13_EmptyPasswordZeroKey ==
    (EngineDerives /\ IsView(m.args.P) /\ m.args.P.byteLength = 0) =>
        LET size == IF m.args.hash \in {"SHA-1", "SHA-256"} THEN 64 ELSE 128
            key  == [k \in 1..size |-> 0]
        IN  /\ BytesOf(m.P) = key
            /\ m.pc \in {"signU1", "signUj"} => (m.Pkey.raw = key /\ Len(m.Pkey.raw) > 0)
            /\ m.promise.state = "fulfilled" =>
                 /\ Len(m.promise.key) = Small(m.args.dkLen)
                 /\ m.promise.key = RefPBKDF2(EngineDigest, key, BytesOf(m.args.S),
                                              Small(m.args.c), Small(m.args.dkLen))

C13_Witness ==
    /\ m.promise.state = "fulfilled"
    /\ args.P = Str(<<>>) /\ m.args.hash = "SHA-384"
    /\ Len(m.Pkey.raw) = 128
    /\ Len(m.promise.key) = 49

\* C18: for an accepted dkLen, l = ceil(dkLen / hLen) and
\* r = dkLen - (l - 1) * hLen satisfy l >= 1, 1 <= r <= hLen and
\* (l - 1) * hLen + r = dkLen; dkLen = hLen gives l = 1, r = hLen and
\* dkLen = hLen + 1 gives l = 2, r = 1.
C18_BlockCountAndRemainder ==
    EngineDerives =>
        /\ m.hLen \in {20, 32, 48, 64}
        /\ LessOrEqual(Num(1), m.l) /\ NumberIsInteger(m.l)
        /\ IsSmall(m.r) /\ 1 <= Small(m.r) /\ Small(m.r) <= m.hLen
        /\ Plus(Times(Plus(m.l, -1), m.hLen), Small(m.r)) = m.args.dkLen
        /\ m.args.dkLen = Num(m.hLen) => (m.l = Num(1) /\ m.r = Num(m.hLen))
        /\ m.args.dkLen = Num(m.hLen + 1) => (m.l = Num(2) /\ m.r = Num(1))

C18_Witness ==
    /\ EngineDerives /\ m.hLen = 48
    /\ m.args.dkLen = Num(48) /\ m.l = Num(1) /\ m.r = Num(48)

C18_WitnessLarge ==
    /\ EngineDerives /\ m.hLen = 20
    /\ m.args.dkLen = Plus(DkLimit(20), -1)
    /\ m.l = Plus(TwoPow32Minus1, 0) /\ m.r = Num(19)

\* C19: the first HMAC message of block number i (the blocks done so far
\* plus one, 1 <= i <= l) is the salt the caller gave, unaltered, followed
\* by the 4 bytes of i, most significant byte first.
C19_FirstMessage ==
    (pc = "fallback" /\ m.pc = "signU1") =>
        LET i    == Len(m.T) + 1
            salt == BytesOf(NormalizeS(args.S))
        IN  /\ 1 <= i /\ LessOrEqual(Num(i), m.l)
            /\ Len(m.msg) = Len(salt) + 4
            /\ SubSeq(m.msg, 1, Len(salt)) = salt
            /\ SubSeq(m.msg, Len(salt) + 1, Len(salt) + 4)
                 = <<i \div 16777216, (i \div 65536) % 256, (i \div 256) % 256, i % 256>>

C19_Witness ==
    /\ pc = "fallback" /\ m.pc = "signU1"
    /\ args.S = ViewOf(<<9, 115, 9>>, 1, 1)
    /\ m.msg = <<115, 0, 0, 0, 2>>

\* the engine awaits a platform operation
EngineAwaits == m.pc \in {"importKey", "signU1", "signUj"}

\* C20: the HMAC call producing U_{j+1} is issued only after the one
\* producing U_j completed (its message is that U_j), and at most one
\* platform operation of the engine is in flight at any time.
C20_OneHMACInFlight ==
    EngineCalled =>
        /\ Len(m.calls) - m.settled = IF EngineAwaits THEN 1 ELSE 0
        /\ m.pc = "signUj" =>
             /\ m.settled = 1 + Len(m.T) * Small(m.args.c) + m.j
             /\ m.msg = RefU(EngineDigest, BytesOf(m.P), BytesOf(m.args.S), Len(m.T) + 1, m.j)

C20_Witness ==
    /\ m.pc = "signUj" /\ Len(m.T) = 1 /\ m.j = 2
    /\ Len(m.calls) = m.settled + 1
    /\ m.settled = 6

\* C14: a call with the hash argument left out behaves as the call with
\* hash 'SHA-256': no invalid-algorithm rejection, the platform primitive
\* and the engine are given 'SHA-256', and a key delivered is the
\* PBKDF2-HMAC-SHA-256 key.
C14_DefaultHashIsSHA256 ==
    args.hash = "undefined" =>
        /\ \A k \in 1..Len(settleLog) : settleLog[k] # "InvalidAlgorithm"
        /\ nativeArgs # <<>> => nativeArgs[1].hash = "SHA-256"
        /\ EngineCalled => (m.args.hash = "SHA-256" /\ m.promise.error # "InvalidAlgorithm")
        /\ promise.state = "fulfilled" =>
             promise.key = RefPBKDF2("sha256", BytesOf(NormalizeP(args.P)),
                                     BytesOf(NormalizeS(args.S)),
                                     Small(args.c), Small(args.dkLen))

C14_Witness ==
    /\ args.hash = "undefined" /\ ~IS_BROWSER
    /\ promise.state = "fulfilled"
    /\ Len(promise.key) = 33

\* C15 (as claimed): when an HMAC operation of the engine (key import or
\* sign) fails, the engine stops with no operation left in flight, its
\* promise is rejected, the promise of pbkdf2Hmac ends rejected with that
\* failure and no key is delivered.
C15_HMACFailureAborts ==
    (EngineCalled /\ m.promise.error = "PlatformError") =>
        /\ m.pc = "settled" /\ Len(m.calls) = m.settled
        /\ m.promise.state = "rejected"
        /\ promise.state # "fulfilled"
        /\ pc = "done" => (promise.state = "rejected" /\ promise.error = "PlatformError")

\* C16 (as claimed): the engine is not run when the inputs the platform
\* deriveBits was given are invalid.
C16_NoFallbackOnInvalidInput ==
    (nativeArgs # <<>> /\ ~ValidInputs(nativeArgs[1])) => ~EngineCalled

\* C12: every block computed out of order is the function F(P', S, c, i) of
\* the derivation's parameters and its index, and the blocks joined by
\* index give the key the sequential loop of the engine returns.
C12_BlocksInAnyOrder ==
    /\ \A i \in DOMAIN par.T :
         par.F[i].pc = "return" => par.T[i] = EngineRefF(i)
    /\ (par.pc = "joined" /\ m.promise.state = "fulfilled") =>
         (par.key = m.promise.key /\ Len(par.key) = Small(m.args.dkLen))

C12_Witness ==
    /\ par.pc = "joined" /\ m.promise.state = "fulfilled"
    /\ par.order = <<2, 1>>
    /\ Small(m.args.c) = 2
    /\ par.key = m.promise.key

\* the sign calls the engine has started
SignCalls == Len(SelectSeq(m.calls, LAMBDA op : op = "sign"))

\* the iterate U_j of the block the engine is computing
EngineRefU(j) ==
    RefU(EngineDigest, BytesOf(m.P), BytesOf(m.args.S), Len(m.T) + 1, j)

\* C23: F issues exactly c HMAC calls per block and the engine l * c in
\* total; with c = 1 the loop of F makes no iteration and every block is
\* U_1 = HMAC(P', S || BE32(i)).
C23_HMACCallCount ==
    EngineDerives =>
        LET c == Small(m.args.c)
        IN  /\ m.pc = "signU1" => SignCalls = Len(m.T) * c + 1
            /\ m.pc = "signUj" => (SignCalls = Len(m.T) * c + m.j + 1 /\ m.j + 1 <= c)
            /\ m.promise.state = "fulfilled" =>
                 (SignCalls = Small(m.l) * c /\ Len(m.calls) = SignCalls + 1)
            /\ c = 1 =>
                 /\ m.pc # "signUj"
                 /\ \A k \in 1..Len(m.T) :
                      LET U1 == HMACBytes(EngineDigest, BytesOf(m.P),
                                          BytesOf(m.args.S) \o <<0, 0, 0, k>>)
                      IN  m.T[k] = IF m.promise.state = "fulfilled" /\ k = Len(m.T)
                                   THEN SubSeq(U1, 1, Small(m.r)) ELSE U1

C23_Witness ==
    /\ m.promise.state = "fulfilled"
    /\ Small(m.args.c) = 1 /\ m.l = Num(2)
    /\ SignCalls = 2

C23_WitnessGeneral ==
    /\ m.promise.state = "fulfilled"
    /\ Small(m.args.c) = 3 /\ m.l = Num(2)
    /\ SignCalls = 6

\* C24: the input of the HMAC call that produces U_{j+1} is the unmodified
\* U_j, never the running accumulator: while U_2 is computed Uacc and
\* UjMinus1 are one buffer that still holds U_1; from then on UjMinus1 is
\* another buffer than Uacc and holds U_j, while Uacc holds
\* U_1 xor ... xor U_j.
C24_IterateNotAccumulator ==
    (EngineCalled /\ m.pc = "signUj") =>
        /\ m.msg = EngineRefU(m.j)
        /\ m.heap[m.UjMinus1] = EngineRefU(m.j)
        /\ m.heap[m.Uacc] = RefF(EngineDigest, BytesOf(m.P), BytesOf(m.args.S),
                                 m.j, Len(m.T) + 1)
        /\ m.j = 1 => m.Uacc = m.UjMinus1
        /\ m.j >= 2 => m.Uacc # m.UjMinus1

C24_Witness ==
    /\ m.pc = "signUj" /\ m.j = 2
    /\ m.Uacc # m.UjMinus1
    /\ m.msg = EngineRefU(2)
    /\ m.msg # m.heap[m.Uacc]

\* the number four octets denote, most significant first
Uint32Of(b) ==
    [hi |-> (b[1] * 16) + (b[2] \div 16),
     lo |-> ((b[2] % 16) * 65536) + (b[3] * 256) + b[4], frac |-> 0]

\* C25: for an accepted dkLen every block index handed to INT lies in
\* 1..l and l <= 2^32 - 1, so the four octets of an index denote the index
\* itself (no wrap modulo 2^32) and the indices of one derivation get
\* distinct encodings.
C25_BlockIndexFits ==
    EngineDerives =>
        /\ LessOrEqual(Num(1), m.l) /\ LessOrEqual(m.l, TwoPow32Minus1)
        /\ Uint32Of(SetUint32(m.l)) = m.l
        /\ SetUint32(m.l) = SetUint32(Num(1)) => m.l = Num(1)
        /\ m.pc \in {"signU1", "signUj"} =>
             /\ 1 <= m.i + 1 /\ LessOrEqual(Num(m.i + 1), m.l)
             /\ Uint32Of(INT(m.i + 1)) = Num(m.i + 1)
             /\ \A k \in 1..m.i : INT(k) # INT(m.i + 1)

C25_Witness ==
    /\ EngineDerives /\ m.l = TwoPow32Minus1
    /\ SetUint32(m.l) = <<255, 255, 255, 255>>
    /\ m.args.dkLen = Plus(DkLimit(m.hLen), -1)

\* C30: concat of n >= 1 arrays returns a new array whose length is the sum
\* of the lengths of the arrays and whose content is the arrays one after
\* the other in argument order, and leaves the arrays as they were passed;
\* with no array it throws a RangeError, which the engine never meets: it
\* calls concat with S and INT(i), and with the l >= 1 blocks of T.
C30_ConcatInOrder ==
    /\ cc.pc = "thrown" => (Len(cc.passed) = 0 /\ cc.error = "RangeError")
    /\ cc.pc = "returned" =>
         /\ Len(cc.passed) >= 1 /\ cc.error = "none"
         /\ Len(cc.result) = SumOfLengths(cc.passed)
         /\ \A n \in 1..Len(cc.passed) :
              SubSeq(cc.result, SumOfLengths(SubSeq(cc.passed, 1, n - 1)) + 1,
                     SumOfLengths(SubSeq(cc.passed, 1, n))) = cc.passed[n]
         /\ cc.result = concat(cc.passed).bytes /\ ~concat(cc.passed).throws
    /\ cc.pc # "idle" => cc.arrs = cc.passed
    /\ m.promise.error # "CannotConcat"
    /\ m.promise.state = "fulfilled" =>
         (Len(m.T) >= 1 /\ LessOrEqual(Num(1), m.l) /\ m.promise.key = concat(m.T).bytes)

C30_Witness ==
    /\ cc.pc = "returned"
    /\ cc.passed = << <<201, 202>>, <<>>, <<1>> >>
    /\ cc.result = <<201, 202, 1>>
    /\ m.promise.state = "fulfilled" /\ Len(m.T) = 2

C30_WitnessThrown ==
    /\ cc.pc = "thrown" /\ cc.passed = <<>>

\* the byte sequence a string, an ArrayBuffer or a view stands for
Denoted(x) ==
    CASE x.type = "string"      -> UTF8(x.chars)
      [] x.type = "ArrayBuffer" -> x.buffer
      [] x.type = "view"        -> [k \in 1..x.byteLength |-> x.buffer[x.byteOffset + k]]

\* C21: the key delivered depends on P and S through the bytes they stand
\* for only (UTF-8 of a string, all bytes of an ArrayBuffer, the bytes
\* [byteOffset, byteOffset + byteLength) of a view), whichever path
\* delivers it; P and S of any of these kinds, empty ones included, are not
\* rejected as inputs.
C21_SameBytesSameKey ==
    (Coercible(args.P) /\ Coercible(args.S) /\ pc # "start") =>
        /\ \A k \in 1..Len(settleLog) : settleLog[k] \notin {"InvalidP", "InvalidS"}
        /\ nativeArgs # <<>> =>
             /\ BytesOf(nativeArgs[1].P) = Denoted(args.P)
             /\ BytesOf(nativeArgs[1].S) = Denoted(args.S)
        /\ (ValidInputs(Params) /\ promise.state = "fulfilled") =>
             promise.key = RefPBKDF2(NodeAlg(Params.hash), Denoted(args.P), Denoted(args.S),
                                     Small(args.c), Small(args.dkLen))
        /\ (ValidInputs(Params) /\ m.promise.state = "fulfilled") =>
             m.promise.key = RefPBKDF2(NodeAlg(Params.hash), Denoted(args.P), Denoted(args.S),
                                       Small(args.c), Small(args.dkLen))

C21_Witness ==
    /\ args.P = ViewOf(<<0, 112, 195, 169, 0>>, 1, 3)
    /\ args.S = ViewOf(<<9, 115, 9>>, 1, 1)
    /\ m.promise.state = "fulfilled" /\ promise.state = "fulfilled"
    /\ promise.key = RefPBKDF2(NodeAlg(Params.hash), <<112, 195, 169>>, <<115>>,
                               Small(args.c), Small(args.dkLen))

C21_WitnessEmpty ==
    /\ args.P = Str(<<>>) /\ args.S = ArrayBufferOf(<<>>)
    /\ promise.state = "fulfilled" /\ ValidInputs(Params)

\* C22: the table HASHALGS has exactly the four names with (outputLength,
\* blockSize) = (20, 64), (32, 64), (48, 128), (64, 128), and these are the
\* values the engine has read from it in every state, whether the
\* invocation goes on, succeeded or failed.
C22_HashTableConstant ==
    /\ DOMAIN HASHALGS = {"SHA-1", "SHA-256", "SHA-384", "SHA-512"}
    /\ HASHALGS["SHA-1"]   = [outputLength |-> 20, blockSize |-> 64]
    /\ HASHALGS["SHA-256"] = [outputLength |-> 32, blockSize |-> 64]
    /\ HASHALGS["SHA-384"] = [outputLength |-> 48, blockSize |-> 128]
    /\ HASHALGS["SHA-512"] = [outputLength |-> 64, blockSize |-> 128]
    /\ EngineDerives =>
         /\ m.hLen = CASE m.args.hash = "SHA-1"   -> 20
                       [] m.args.hash = "SHA-256" -> 32
                       [] m.args.hash = "SHA-384" -> 48
                       [] m.args.hash = "SHA-512" -> 64
         /\ m.args.P.byteLength = 0 =>
              Len(BytesOf(m.P)) = IF m.args.hash \in {"SHA-1", "SHA-256"} THEN 64 ELSE 128

C22_Witness ==
    /\ pc = "done" /\ promise.state = "rejected"
    /\ m.promise.error = "PlatformError" /\ Len(m.T) = 1
    /\ m.args.hash = "SHA-384" /\ m.hLen = 48
    /\ HASHALGS[m.args.hash].blockSize = 128

\* C26 (as claimed): in the browser the engine is called only after the
\* PBKDF2 key import succeeded and deriveBits failed; a failed key import
\* ends the call rejected with that failure, with no deriveBits and no
\* engine; a deriveBits that succeeded ends it fulfilled with the native
\* key, with no engine; a fallback that failed ends it rejected with the
\* error of the fallback.
C26_FallbackExactlyAfterNativeFailure ==
    IS_BROWSER =>
        /\ EngineCalled => cryptoLog = <<"importKey:PBKDF2", "deriveBits">>
        /\ (pc = "done" /\ cryptoLog = <<"importKey:PBKDF2">>) =>
             /\ ~EngineCalled
             /\ promise.state = "rejected" /\ promise.error = "PlatformError"
        /\ (pc = "done" /\ Len(cryptoLog) = 2 /\ ~EngineCalled) =>
             /\ promise.state = "fulfilled"
             /\ promise.key = PlatformPBKDF2(nativeArgs[1], NodeAlg(nativeArgs[1].hash))
        /\ (pc = "done" /\ m.promise.state = "rejected") =>
             (promise.state = "rejected" /\ promise.error = m.promise.error)

\* the first check of the executor that fails, in the order hash, P, S
FirstFailingCheck ==
    IF ~HashInHASHALGS(Params.hash) THEN "InvalidAlgorithm"
    ELSE IF ~Coercible(args.P) THEN "InvalidP"
    ELSE IF ~Coercible(args.S) THEN "InvalidS"
    ELSE "none"

\* C27: when checks of the executor fail, the promise is rejected with the
\* reason of the first failing one, in the order hash, P, S, and keeps it
\* whatever reject and resolve calls follow (later checks, the platform
\* call issued afterwards, the fallback).
C27_FirstRejectionWins ==
    (pc # "start" /\ FirstFailingCheck # "none") =>
        /\ settleLog # <<>> /\ settleLog[1] = FirstFailingCheck
        /\ promise = [state |-> "rejected", key |-> <<>>, error |-> FirstFailingCheck]

C27_Witness ==
    /\ pc = "done" /\ ~IS_BROWSER
    /\ settleLog = <<"InvalidAlgorithm", "InvalidP", "InvalidS", "PlatformError">>
    /\ promise.error = "InvalidAlgorithm"

\* the view x is over the bytes y was given with, unchanged
SameBuffer(x, y) ==
    IsBufferSource(y) => (x.buffer = y.buffer /\ BytesOf(x) = Denoted(y))

\* C29: the buffers of the caller keep their bytes: the views the executor
\* and the engine hold on P and S are over the bytes that were passed in,
\* in every state up to and after the settlement; the substitution for an
\* empty P binds the local P of the engine to a new array and leaves the
\* array that was passed as it was.
C29_CallerBuffersUntouched ==
    /\ pc # "start" => (SameBuffer(P, args.P) /\ SameBuffer(S, args.S))
    /\ nativeArgs # <<>> =>
         (SameBuffer(nativeArgs[1].P, args.P) /\ SameBuffer(nativeArgs[1].S, args.S))
    /\ EngineCalled =>
         /\ m.args.P = P /\ m.args.S = S
         /\ SameBuffer(m.args.P, args.P) /\ SameBuffer(m.args.S, args.S)
         /\ (EngineDerives /\ BytesOf(P) # <<>>) => m.P = P

C29_Witness ==
    /\ pc = "done" /\ m.promise.state = "fulfilled" /\ Small(m.args.c) = 2
    /\ args.P = ViewOf(<<0, 112, 195, 169, 0>>, 1, 3)
    /\ args.S = ViewOf(<<9, 115, 9>>, 1, 1)
    /\ m.args.P.buffer = <<0, 112, 195, 169, 0>>
    /\ m.args.S.buffer = <<9, 115, 9>>

C29_WitnessEmptyP ==
    /\ m.promise.state = "fulfilled" /\ args.P = Str(<<>>)
    /\ m.P # m.args.P /\ m.args.P = P /\ BytesOf(P) = <<>>

\* the derivation has more blocks than are run to the end here
EngineBeyondBounds == m.pc = "importKey" /\ ~LessOrEqual(m.l, Num(MaxBlocks))

\* C28: when every platform operation completes, the promise of pbkdf2Hmac
\* is eventually settled (derivations of at most MaxBlocks blocks are
\* followed to their end); an engine that returned its key made l turns of
\* the block loop and c - 1 turns of the loop of F in each.
C28_EventuallySettles ==
    /\ <>(promise.state # "pending" \/ EngineBeyondBounds)
    /\ [](m.promise.state = "fulfilled" =>
            /\ Len(m.T) = Small(m.l)
            /\ SignCalls = Small(m.l) * (1 + (Small(m.args.c) - 1)))

C28_Witness ==
    /\ pc = "done" /\ promise.state = "fulfilled"
    /\ m.promise.state = "fulfilled"
    /\ Len(m.T) = 2 /\ Small(m.args.c) = 3 /\ SignCalls = 6

====
